---- MODULE Spec2Model ----
(***************************************************************************)
(* Model of frontends/PyCDE/src/pycde/support.py: the attribute encoder    *)
(* (_obj_to_attribute, obj_to_typed_attribute), the type inferer           *)
(* (_infer_type) and the location resolver (get_user_loc).                 *)
(*                                                                         *)
(* The functions are pure; the state machine is a caller that holds one    *)
(* argument and applies the functions to it, recording what each call      *)
(* returned or raised.                                                     *)
(***************************************************************************)
EXTENDS FiniteSets, Integers, Sequences, TLC

VARIABLES entry, obj, type, stack, attr, again, itype, tattr, loc

vars == <<entry, obj, type, stack, attr, again, itype, tattr, loc>>

(***************************************************************************)
(* Bounds.                                                                 *)
(***************************************************************************)
MaxInt == 2
MaxLen == 2
MaxDepth == 2
MaxStack == 3

(***************************************************************************)
(* Python objects.  Every kind has its own set of field names.             *)
(***************************************************************************)
PyNone == [kind |-> "NoneType"]

PyBool(b) == [kind |-> "bool", b |-> b]

PyInt(i) == [kind |-> "int", i |-> i]

PyStr(s) == [kind |-> "str", s |-> s]

\* a float such as 3.14: no dispatch case, no __dict__
PyFloat == [kind |-> "float"]

\* an ir.Value handle: no dispatch case, no __dict__
PyValue == [kind |-> "Value"]

\* a list or a tuple; k is "list" or "tuple"
PySeq(k, es) == [kind |-> k, elems |-> es]

\* a dict: its items in insertion order, names unique
PyDict(its) == [kind |-> "dict", items |-> its]

\* an instance of a user class: its __dict__ in insertion order
PyObject(its) == [kind |-> "object", dict |-> its]

\* an object that already is an ir.Attribute
PyAttr(a) == [kind |-> "Attribute", attr |-> a]

\* an object that is an ir.Type
PyType(t) == [kind |-> "Type", irtype |-> t]

\* common.AppID, which wraps an attribute in _appid
PyAppID(a) == [kind |-> "AppID", appid |-> a]

Item(n, v) == [name |-> n, value |-> v]

(***************************************************************************)
(* Types.  A PyCDE type t wraps the ir.Type t._type.                       *)
(***************************************************************************)
IntegerType(w) == [kind |-> "IntegerType", width |-> w, signedness |-> "signless"]

ClockIrType == [kind |-> "ClockType"]

\* types.Bits(w), a BitVectorType
Bits(w) == [kind |-> "Bits", width |-> w]

\* a PyCDE type that is not a BitVectorType
ClockCde == [kind |-> "Clock"]

\* types.Array(element_type, size)
Array(t, n) == [kind |-> "Array", element_type |-> t, size |-> n]

IsBitVectorType(t) == t.kind = "Bits"

\* type._type
IrTypeOf(t) == IF t.kind = "Bits" THEN IntegerType(t.width) ELSE ClockIrType

\* the PyCDE type object as the encoder sees it: an instance with _type
CdeTypeObj(t) == PyObject(<<Item("_type", PyType(IrTypeOf(t)))>>)

\* a signals.Signal of type t; extra are its instance fields besides type
PySignal(t, extra) ==
  [kind |-> "Signal", sigtype |-> t, dict |-> <<Item("type", CdeTypeObj(t))>> \o extra]

(***************************************************************************)
(* Attributes, and what a call returns or raises.                          *)
(***************************************************************************)
BoolAttr(b) == [kind |-> "BoolAttr", b |-> b]

IntegerAttr(t, v) == [kind |-> "IntegerAttr", irtype |-> t, value |-> v]

StringAttr(s) == [kind |-> "StringAttr", s |-> s]

ArrayAttr(es) == [kind |-> "ArrayAttr", elems |-> es]

\* m is a function from the names to the attributes
DictAttr(m) == [kind |-> "DictAttr", map |-> m]

TypeAttr(t) == [kind |-> "TypeAttr", wrapped |-> t]

AppIDAttr(n) == [kind |-> "AppIDAttr", appname |-> n]

Raise(exc, msg, of) == [kind |-> "raise", exc |-> exc, msg |-> msg, of |-> of]

IsRaise(r) == r.kind = "raise"

NoCall == [kind |-> "NoCall"]

Called(r) == r.kind # "NoCall"


(***************************************************************************)
(* Helpers for comprehensions: the elements are evaluated in order and the *)
(* first exception raised propagates.                                      *)
(***************************************************************************)
AnyRaise(rs) == \E i \in DOMAIN rs : IsRaise(rs[i])

FirstRaise(rs) ==
  rs[CHOOSE i \in DOMAIN rs : IsRaise(rs[i]) /\ \A j \in DOMAIN rs : j < i => ~IsRaise(rs[j])]

IsInstance(o, cls) ==
  CASE cls = "int" -> o.kind \in {"int", "bool"}
    [] cls = "list_or_tuple" -> o.kind \in {"list", "tuple"}
    [] OTHER -> o.kind = cls

\* hasattr(obj, "__dict__"): instances of Python classes
HasDict(o) == o.kind \in {"object", "Signal"}

\* int(obj) for an int or a bool
IntValue(o) == IF o.kind = "bool" THEN (IF o.b THEN 1 ELSE 0) ELSE o.i

RECURSIVE Pow2(_)
Pow2(n) == IF n = 0 THEN 1 ELSE 2 * Pow2(n - 1)

\* i is representable in w bits, two's complement
RECURSIVE Fits(_, _)
Fits(i, w) ==
  IF w = 0 THEN FALSE
  ELSE IF i \in {-1, 0} THEN TRUE
  ELSE IF w = 1 THEN FALSE
  ELSE Fits(IF i >= 0 THEN i \div 2 ELSE -((1 - i) \div 2), w - 1)

\* the w-bit pattern of i read back as a signed number
Truncate(i, w) ==
  IF Fits(i, w) THEN i
  ELSE LET m == Pow2(w)
           r == i % m
       IN  IF 2 * r >= m THEN r - m ELSE r

\* ir.IntegerAttr.get(type, value)
IntegerAttrGet(t, o) ==
  IF IsInstance(o, "int")
  THEN IntegerAttr(t, Truncate(IntValue(o), t.width))
  ELSE Raise("TypeError", "get(): incompatible function arguments", o.kind)

\* bool(attribute): BoolAttr defines __bool__, ArrayAttr and DictAttr
\* define __len__, every other attribute is true
Truthy(a) ==
  CASE a.kind = "BoolAttr" -> a.b
    [] a.kind = "ArrayAttr" -> Len(a.elems) > 0
    [] a.kind = "DictAttr" -> DOMAIN a.map # {}
    [] OTHER -> TRUE

\* all(arr)
all(arr) == \A i \in DOMAIN arr : Truthy(arr[i])

(***************************************************************************)
(* _obj_to_attribute                                                       *)
(***************************************************************************)
DefaultWidth == 64

\* CaseOrder with the int test ahead of the bool test
CaseOrderIntFirst ==
  <<"NoneType", "Attribute", "Type", "int", "bool", "str", "list_or_tuple",
    "dict", "AppID", "__dict__">>

\* CaseOrder without the pass-through of attributes
CaseOrderNoPassThrough ==
  <<"NoneType", "Type", "bool", "int", "str", "list_or_tuple",
    "dict", "AppID", "__dict__">>

\* the isinstance tests of _obj_to_attribute, in source order
CaseOrder ==
  <<"NoneType", "Attribute", "Type", "bool", "int", "str", "list_or_tuple",
    "dict", "AppID", "__dict__">>

Matches(c, o) ==
  IF c = "__dict__" THEN HasDict(o) ELSE IsInstance(o, c)

\* obj.items() of a dict, obj.__dict__.items() of an instance
ItemsOf(o) == IF o.kind = "dict" THEN o.items ELSE o.dict

\* falling off the end of the function instead of raising
UnsupportedValueReturnsNone(o) == PyNone

UnsupportedValue(o) ==
  Raise("TypeError", "Cannot convert type to MLIR attribute", o.kind)

RECURSIVE _obj_to_attribute(_)

\* [_obj_to_attribute(x) for x in obj]
ListComprehension(es) ==
  LET arr == [i \in 1..Len(es) |-> _obj_to_attribute(es[i])]
  IN  IF AnyRaise(arr) THEN FirstRaise(arr) ELSE ArrayAttr(arr)

\* the dict comprehension with a filter that keeps the true attributes only
DictComprehensionSkipsFalse(its) ==
  LET rs == [i \in 1..Len(its) |-> _obj_to_attribute(its[i].value)]
      names == {its[i].name : i \in {j \in 1..Len(its) : Truthy(rs[j])}}
  IN  IF AnyRaise(rs) THEN FirstRaise(rs)
      ELSE DictAttr([n \in names |-> rs[CHOOSE i \in 1..Len(its) : its[i].name = n]])

\* ir.DictAttr.get({name: _obj_to_attribute(value) for name, value in items})
DictComprehension(its) ==
  LET rs == [i \in 1..Len(its) |-> _obj_to_attribute(its[i].value)]
      names == {its[i].name : i \in 1..Len(its)}
  IN  IF AnyRaise(rs) THEN FirstRaise(rs)
      ELSE DictAttr([n \in names |-> rs[CHOOSE i \in 1..Len(its) : its[i].name = n]])

\* the body of the if statement of case c
Convert(c, o) ==
  CASE c = "NoneType" -> BoolAttr(FALSE)
    [] c = "Attribute" -> o.attr
    [] c = "Type" -> TypeAttr(o.irtype)
    [] c = "bool" -> BoolAttr(o.b)
    [] c = "int" -> IntegerAttrGet(IntegerType(DefaultWidth), o)
    [] c = "str" -> StringAttr(o.s)
    [] c = "dict" -> DictComprehension(ItemsOf(o))
    [] c = "AppID" -> o.appid
    [] c = "__dict__" -> DictComprehension(ItemsOf(o))

\* the if statements from the k-th on; a list whose all(arr) is false
\* falls through to the statements after it
RECURSIVE DispatchFrom(_, _)
DispatchFrom(o, k) ==
  IF k > Len(CaseOrder) THEN UnsupportedValue(o)
  ELSE LET c == CaseOrder[k]
       IN  IF ~Matches(c, o) THEN DispatchFrom(o, k + 1)
           ELSE IF c = "list_or_tuple"
             THEN LET r == ListComprehension(o.elems)
                  IN  IF IsRaise(r) THEN r
                      ELSE IF all(r.elems) THEN r
                      ELSE DispatchFrom(o, k + 1)
           ELSE Convert(c, o)

_obj_to_attribute(o) == DispatchFrom(o, 1)

(***************************************************************************)
(* obj_to_typed_attribute                                                  *)
(***************************************************************************)
UnsupportedType(t) ==
  Raise("ValueError", "Type conversion to attribute not supported yet", t.kind)

\* the typed encoder using the default width instead of the declared one
obj_to_typed_attribute_default_width(o, t) ==
  IF IsBitVectorType(t) THEN IntegerAttrGet(IntegerType(DefaultWidth), o)
  ELSE UnsupportedType(t)

obj_to_typed_attribute(o, t) ==
  IF IsBitVectorType(t) THEN IntegerAttrGet(IrTypeOf(t), o)
  ELSE UnsupportedType(t)

(***************************************************************************)
(* _infer_type                                                             *)
(***************************************************************************)
AmbiguousArray(x) ==
  Raise("ValueError", "CIRCT array must be homogenous, unlike object", x.kind)

CannotInferWidth(x) == Raise("ValueError", "Cannot infer width", x.kind)

CannotInferFieldOrder(x) ==
  Raise("ValueError", "Cannot infer struct field order", x.kind)

\* list_types[0] of an empty list
IndexError(x) == Raise("IndexError", "list index out of range", x.kind)

RECURSIVE _infer_type(_)

\* lines 109-113 without the homogeneity test
InferSeqNoCheck(x) ==
  LET list_types == [i \in 1..Len(x.elems) |-> _infer_type(x.elems[i])]
  IN  IF AnyRaise(list_types) THEN FirstRaise(list_types)
      ELSE IF Len(x.elems) = 0 THEN IndexError(x)
      ELSE Array(list_types[1], Len(x.elems))

\* lines 109-113
InferSeq(x) ==
  LET list_types == [i \in 1..Len(x.elems) |-> _infer_type(x.elems[i])]
  IN  IF AnyRaise(list_types) THEN FirstRaise(list_types)
      ELSE IF Len(x.elems) = 0 THEN IndexError(x)
      ELSE IF \E i \in 1..Len(x.elems) : list_types[i] # list_types[1]
        THEN AmbiguousArray(x)
      ELSE Array(list_types[1], Len(x.elems))

\* lines 114-118 without the int test
InferOtherNoInt(x) ==
  IF IsInstance(x, "dict") THEN CannotInferFieldOrder(x)
  ELSE PyNone

\* lines 114-118
InferOther(x) ==
  IF IsInstance(x, "int") THEN CannotInferWidth(x)
  ELSE IF IsInstance(x, "dict") THEN CannotInferFieldOrder(x)
  ELSE PyNone

_infer_type(x) ==
  IF IsInstance(x, "Signal") THEN x.sigtype
  ELSE IF IsInstance(x, "list_or_tuple") THEN InferSeq(x)
  ELSE InferOther(x)

(***************************************************************************)
(* get_user_loc.  A file name is the sequence of its path components; a    *)
(* stack is a sequence of frames, oldest first, as extract_stack gives it. *)
(***************************************************************************)
Frame(f, l) == [filename |-> f, lineno |-> l]

\* os.path.split(filename)[1]
BaseName(f) == f[Len(f)]

_hidden_filenames == {"functools.py", "support.py"}

FileLoc(f, l, c) == [kind |-> "FileLineColLoc", filename |-> f, line |-> l, col |-> c]

UnknownLoc == [kind |-> "UnknownLoc"]

CallSiteLoc(callee, caller) == [kind |-> "CallSiteLoc", callee |-> callee, caller |-> caller]

\* reversed(s)
Reversed(s) == [i \in 1..Len(s) |-> s[Len(s) + 1 - i]]

\* the frames of s that the loop keeps, in order
RECURSIVE KeptLocs(_)
KeptLocs(s) ==
  IF s = <<>> THEN <<>>
  ELSE LET frame == Head(s)
           fn == BaseName(frame.filename)
       IN  IF fn \in _hidden_filenames THEN KeptLocs(Tail(s))
           ELSE <<FileLoc(frame.filename, frame.lineno, 0)>> \o KeptLocs(Tail(s))

\* the caller chain Location.callsite builds from a non-empty frames list
RECURSIVE CallerChain(_)
CallerChain(frames) ==
  IF Len(frames) = 1 THEN frames[1]
  ELSE CallSiteLoc(Head(frames), CallerChain(Tail(frames)))

\* ir.Location.callsite(callee, frames): the binding rejects an empty
\* frames list
LocationCallsite(callee, frames) ==
  IF frames = <<>> THEN Raise("ValueError", "No caller frames provided", "callsite")
  ELSE CallSiteLoc(callee, CallerChain(frames))

get_user_loc(s) ==
  LET stack_locs == KeptLocs(Reversed(s))
  IN  IF Len(stack_locs) = 0 THEN UnknownLoc
      ELSE LocationCallsite(stack_locs[1], Tail(stack_locs))

(***************************************************************************)
(* The arguments the caller draws from.                                    *)
(***************************************************************************)
IntVals == (0 - MaxInt)..MaxInt

Strings == {"", "a"}

Names == {"a", "b"}

SeqKinds == {"list", "tuple"}

SampleAttrs ==
  {BoolAttr(FALSE), ArrayAttr(<<>>), StringAttr("a"),
   IntegerAttr(IntegerType(DefaultWidth), 1)}

SignalTypes == {Bits(1), Bits(2)}

DeclaredTypes == {Bits(1), Bits(2), ClockCde, Array(Bits(1), 2)}

Signals ==
  {PySignal(t, extra) : t \in SignalTypes, extra \in {<<>>, <<Item("value", PyValue)>>}}

Scalars ==
  {PyNone, PyFloat} \cup {PyBool(b) : b \in BOOLEAN} \cup {PyInt(i) : i \in IntVals}
    \cup {PyStr(s) : s \in Strings} \cup {PyType(IntegerType(1)), PyType(ClockIrType)}
    \cup {PyAttr(a) : a \in SampleAttrs} \cup {PyAppID(AppIDAttr("a"))}

\* the elements of the flat containers
ElemAtoms ==
  {PyNone, PyBool(FALSE), PyBool(TRUE), PyInt(1), PyInt(2), PyStr("a"), PyFloat,
   PySignal(Bits(1), <<>>), PySignal(Bits(2), <<>>),
   PySignal(Bits(1), <<Item("value", PyValue)>>)}

\* the leaves of the nested containers
NestAtoms ==
  {PyInt(1), PyBool(FALSE), PyFloat, PySignal(Bits(1), <<>>), PySignal(Bits(2), <<>>)}

SeqsOver(S, n) == UNION {[1..k -> S] : k \in 0..n}

\* item lists with pairwise different names
ItemsOver(S) ==
  {its \in SeqsOver({Item(n, v) : n \in Names, v \in S}, Cardinality(Names)) :
     \A i, j \in 1..Len(its) : its[i].name = its[j].name => i = j}

Containers(S) ==
  {PySeq(k, es) : k \in SeqKinds, es \in SeqsOver(S, MaxLen)}
    \cup {PyDict(its) : its \in ItemsOver(S)}
    \cup {PyObject(its) : its \in ItemsOver(S)}

\* values nested d deep: one-element lists and dicts around the level below
RECURSIVE Nested(_)
Nested(d) ==
  IF d = 0 THEN NestAtoms
  ELSE LET S == Nested(d - 1)
       IN  S \cup {PySeq("list", <<>>), PyDict(<<>>)}
             \cup {PySeq("list", <<v>>) : v \in S}
             \cup {PyDict(<<Item("a", v)>>) : v \in S}

Values ==
  Scalars \cup Signals \cup Containers(ElemAtoms) \cup Containers(Nested(MaxDepth - 1))

Files ==
  {<<"pycde", "support.py">>, <<"lib", "functools.py">>, <<"user", "design.py">>,
   <<"support.py", "top.py">>}

Lines == {5, 10}

Frames == {Frame(f, l) : f \in Files, l \in Lines}

\* the frame of get_user_loc itself, the innermost of every stack it sees
SelfFrame == Frame(<<"pycde", "support.py">>, 79)

Stacks == {pre \o <<SelfFrame>> : pre \in SeqsOver(Frames, MaxStack)}

(***************************************************************************)
(* The caller.                                                             *)
(***************************************************************************)
Init ==
  /\ \/ /\ entry = "value"
        /\ obj \in Values
        /\ type = ClockCde
        /\ stack = <<SelfFrame>>
     \/ /\ entry = "typed"
        /\ obj \in Scalars
        /\ type \in DeclaredTypes
        /\ stack = <<SelfFrame>>
     \/ /\ entry = "loc"
        /\ obj = PyNone
        /\ type = ClockCde
        /\ stack \in Stacks
  /\ attr = NoCall
  /\ again = NoCall
  /\ itype = NoCall
  /\ tattr = NoCall
  /\ loc = NoCall

\* attr = _obj_to_attribute(obj)
ObjToAttribute ==
  /\ entry = "value"
  /\ ~Called(attr)
  /\ attr' = _obj_to_attribute(obj)
  /\ UNCHANGED <<entry, obj, type, stack, again, itype, tattr, loc>>

\* again = _obj_to_attribute(attr), the attribute fed back to the encoder
ObjToAttributeAgain ==
  /\ entry = "value"
  /\ Called(attr)
  /\ ~IsRaise(attr)
  /\ ~Called(again)
  /\ again' = _obj_to_attribute(PyAttr(attr))
  /\ UNCHANGED <<entry, obj, type, stack, attr, itype, tattr, loc>>

\* itype = _infer_type(obj)
InferType ==
  /\ entry = "value"
  /\ ~Called(itype)
  /\ itype' = _infer_type(obj)
  /\ UNCHANGED <<entry, obj, type, stack, attr, again, tattr, loc>>

\* tattr = obj_to_typed_attribute(obj, type)
ObjToTypedAttribute ==
  /\ entry = "typed"
  /\ ~Called(tattr)
  /\ tattr' = obj_to_typed_attribute(obj, type)
  /\ UNCHANGED <<entry, obj, type, stack, attr, again, itype, loc>>

\* loc = get_user_loc(), called with stack active
GetUserLoc ==
  /\ entry = "loc"
  /\ ~Called(loc)
  /\ loc' = get_user_loc(stack)
  /\ UNCHANGED <<entry, obj, type, stack, attr, again, itype, tattr>>

Next ==
  \/ ObjToAttribute
  \/ ObjToAttributeAgain
  \/ InferType
  \/ ObjToTypedAttribute
  \/ GetUserLoc

Spec == Init /\ [][Next]_vars

TypeOK == entry \in {"value", "typed", "loc"}

(***************************************************************************)
(* Properties.                                                             *)
(***************************************************************************)
IsSeq(o) == o.kind \in SeqKinds

IsMapping(o) == o.kind \in {"dict", "object", "Signal"}

Encodable(v) == ~IsRaise(_obj_to_attribute(v))

\* _infer_type gives v a type: it neither raises nor returns None
Inferable(v) ==
  LET t == _infer_type(v) IN ~IsRaise(t) /\ t.kind # "NoneType"

IsUnsupportedValueError(r) ==
  IsRaise(r) /\ r.exc = "TypeError" /\ r.msg = "Cannot convert type to MLIR attribute"

IsUnsupportedTypeError(r) ==
  IsRaise(r) /\ r.exc = "ValueError"
    /\ r.msg = "Type conversion to attribute not supported yet"

IsAmbiguousArrayError(r) ==
  IsRaise(r) /\ r.exc = "ValueError"
    /\ r.msg = "CIRCT array must be homogenous, unlike object"

IsUninferableError(r) ==
  IsRaise(r) /\ r.exc = "ValueError"
    /\ r.msg \in {"Cannot infer width", "Cannot infer struct field order"}

\* C1: the encoding of a list or tuple whose elements are each encodable is
\* an ArrayAttr of the same length whose i-th element is the encoding of
\* the i-th element.
C1_SeqEncodedElementwise ==
  (/\ entry = "value"
   /\ Called(attr)
   /\ IsSeq(obj)
   /\ \A i \in 1..Len(obj.elems) : Encodable(obj.elems[i]))
  => /\ attr.kind = "ArrayAttr"
     /\ Len(attr.elems) = Len(obj.elems)
     /\ \A i \in 1..Len(obj.elems) : attr.elems[i] = _obj_to_attribute(obj.elems[i])

\* C2: the encoding of a dict, or of an instance through its __dict__, whose
\* values are each encodable is a DictAttr with exactly the names of the
\* source, each mapped to the encoding of its value.
C2_DictKeysAndEntries ==
  (/\ entry = "value"
   /\ Called(attr)
   /\ IsMapping(obj)
   /\ \A i \in 1..Len(ItemsOf(obj)) : Encodable(ItemsOf(obj)[i].value))
  => /\ attr.kind = "DictAttr"
     /\ DOMAIN attr.map = {ItemsOf(obj)[i].name : i \in 1..Len(ItemsOf(obj))}
     /\ \A i \in 1..Len(ItemsOf(obj)) :
          attr.map[ItemsOf(obj)[i].name] = _obj_to_attribute(ItemsOf(obj)[i].value)

C2_Witness ==
  /\ entry = "value"
  /\ obj.kind = "dict"
  /\ Len(obj.items) = 2
  /\ \E i \in 1..2 : obj.items[i].value = PyBool(FALSE)
  /\ Called(attr)
  /\ attr.kind = "DictAttr"

\* C3: for a non-empty list or tuple whose elements each have an inferable
\* type, _infer_type raises the homogeneity error when the types differ,
\* while _obj_to_attribute of that sequence, its elements being encodable,
\* returns an ArrayAttr; when the types are all equal to t, _infer_type
\* returns Array(t, len).
C3_HeterogeneousInference ==
  (/\ entry = "value"
   /\ Called(itype)
   /\ IsSeq(obj)
   /\ Len(obj.elems) > 0
   /\ \A i \in 1..Len(obj.elems) : Inferable(obj.elems[i]))
  => IF \E i, j \in 1..Len(obj.elems) :
          _infer_type(obj.elems[i]) # _infer_type(obj.elems[j])
     THEN /\ IsAmbiguousArrayError(itype)
          /\ (Called(attr) /\ \A i \in 1..Len(obj.elems) : Encodable(obj.elems[i]))
               => attr.kind = "ArrayAttr"
     ELSE itype = Array(_infer_type(obj.elems[1]), Len(obj.elems))

C3_Witness ==
  /\ entry = "value"
  /\ IsSeq(obj)
  /\ Len(obj.elems) = 2
  /\ obj.elems[1].kind = "Signal"
  /\ obj.elems[2].kind = "Signal"
  /\ obj.elems[1].sigtype # obj.elems[2].sigtype
  /\ Called(itype)
  /\ IsAmbiguousArrayError(itype)
  /\ Called(attr)
  /\ attr.kind = "ArrayAttr"

\* the locations of a nested call-site location, primary first
RECURSIVE Chain(_)
Chain(l) ==
  IF l.kind = "CallSiteLoc" THEN <<l.callee>> \o Chain(l.caller) ELSE <<l>>

\* the frames of s whose base name is not excluded, innermost first
RECURSIVE UserFrames(_)
UserFrames(s) ==
  IF s = <<>> THEN <<>>
  ELSE LET f == s[Len(s)]
           rest == UserFrames(SubSeq(s, 1, Len(s) - 1))
       IN  IF f.filename[Len(f.filename)] \in {"functools.py", "support.py"}
           THEN rest
           ELSE <<f>> \o rest

\* C4: get_user_loc never raises; its result is the unknown location when
\* every frame is excluded, and otherwise the chain of exactly the frames
\* that are not excluded, innermost first.
C4_UserLocChain ==
  (entry = "loc" /\ Called(loc))
  => /\ ~IsRaise(loc)
     /\ LET u == UserFrames(stack)
        IN  IF u = <<>> THEN loc = UnknownLoc
            ELSE Chain(loc) = [i \in 1..Len(u) |-> FileLoc(u[i].filename, u[i].lineno, 0)]

\* i is in the range of a w-bit two's complement number
InRange(i, w) == 0 - Pow2(w - 1) <= i /\ i < Pow2(w - 1)

C6_BoolBeforeInt ==
  (entry = "value" /\ Called(attr))
  => /\ obj.kind = "bool" => (attr = BoolAttr(obj.b) /\ attr.kind # "IntegerAttr")
     /\ obj.kind = "NoneType" => attr = _obj_to_attribute(PyBool(FALSE))

C6_Witness ==
  /\ entry = "value"
  /\ obj = PyBool(TRUE)
  /\ Called(attr)
  /\ attr = BoolAttr(TRUE)

\* v is, or holds at some depth, a value no case of the encoder matches
RECURSIVE HoldsUnsupported(_)
HoldsUnsupported(v) ==
  \/ v.kind \in {"float", "Value"}
  \/ IsSeq(v) /\ \E i \in 1..Len(v.elems) : HoldsUnsupported(v.elems[i])
  \/ IsMapping(v) /\ \E i \in 1..Len(ItemsOf(v)) : HoldsUnsupported(ItemsOf(v)[i].value)

\* C7: the encoder raises the unsupported-value error for a value no case
\* matches and for every list, tuple, dict or instance holding one at any
\* depth; it returns no attribute then.
C7_UnsupportedFailsWhole ==
  (entry = "value" /\ Called(attr) /\ HoldsUnsupported(obj))
  => IsUnsupportedValueError(attr)

C7_Witness ==
  /\ entry = "value"
  /\ IsSeq(obj)
  /\ Len(obj.elems) = 2
  /\ Encodable(obj.elems[1])
  /\ obj.elems[2].kind \in {"list", "dict"}
  /\ HoldsUnsupported(obj.elems[2])
  /\ Called(attr)
  /\ IsUnsupportedValueError(attr)

\* C8: feeding the attribute the encoder returned back to the encoder
\* returns that attribute.
C8_Idempotent ==
  (entry = "value" /\ Called(attr) /\ ~IsRaise(attr) /\ Called(again))
  => again = attr

C8_Witness ==
  /\ entry = "value"
  /\ obj.kind = "dict"
  /\ Called(attr)
  /\ attr.kind = "DictAttr"
  /\ DOMAIN attr.map = {}
  /\ Called(again)
  /\ again = attr

\* C9: _infer_type raises the uninferable error for an int, for a dict and
\* for a non-empty list or tuple of ints, and returns None only for a value
\* that is no Signal, no list or tuple, no int and no dict.
C9_Uninferable ==
  (entry = "value" /\ Called(itype))
  => /\ obj.kind = "int" => IsUninferableError(itype)
     /\ obj.kind = "dict" => IsUninferableError(itype)
     /\ (IsSeq(obj) /\ Len(obj.elems) > 0
           /\ \A i \in 1..Len(obj.elems) : obj.elems[i].kind = "int")
          => IsUninferableError(itype)
     /\ itype.kind = "NoneType"
          => obj.kind \notin {"Signal", "list", "tuple", "int", "dict"}

C9_Witness ==
  /\ entry = "value"
  /\ obj = PySeq("list", <<PyInt(1), PyInt(2)>>)
  /\ Called(itype)
  /\ IsUninferableError(itype)

\* C10: _infer_type of an empty list or tuple, alone or nested directly in
\* a list or tuple, raises the uninferable error and nothing else.
C10_EmptySeqUninferable ==
  (/\ entry = "value"
   /\ Called(itype)
   /\ IsSeq(obj)
   /\ \/ Len(obj.elems) = 0
      \/ \E i \in 1..Len(obj.elems) : IsSeq(obj.elems[i]) /\ Len(obj.elems[i].elems) = 0)
  => IsUninferableError(itype)

====
